---- MODULE Spec2Model ----
(***************************************************************************)
(* Model of the Fibonacci queue of fbheap (src/src/heap.rs, node.rs).      *)
(*                                                                         *)
(* A node handle (NRef = Rc<RefCell<NCore>>) is a node identity 1..MaxNodes.*)
(* The cells every handle points to form `heap`, a function from the       *)
(* identities that are still allocated to NCore records.  A handle that    *)
(* is absent (Option::None) is the identity 0.  Both front-ends,           *)
(* SimpleQueue and HashQueue, are driven with the same calls, side by side.*)
(* Values are pairwise distinct: the k-th push pushes the value k, so that *)
(* the derived equality of two handles (pointer equality, else the fields  *)
(* in order, value first) is decided by the identities alone.              *)
(***************************************************************************)
EXTENDS Integers, Sequences, FiniteSets, TLC

VARIABLES sq, hq, call, pushed, ncalls, hist

vars == <<sq, hq, call, pushed, ncalls, hist>>

\* Bounds of the model.
MaxNodes == 5
MaxPrio == 3
MaxCalls == 7

Values == 1..MaxNodes
Prios == 1..MaxPrio

None == 0

-----------------------------------------------------------------------------
(* node.rs: NCore and the NPrpt primitives, on a heap h of cells *)

\* NCore::new / NPrpt::new_node: no parent, no children, unmarked
new_node(t, priority) ==
    [t |-> t, priority |-> priority, parent |-> None, children |-> <<>>, marked |-> FALSE]

rank(h, n) == Len(h[n].children)

has_higher_priority(h, n, priority) == h[n].priority > priority

set_priority(h, n, priority) == [h EXCEPT ![n].priority = priority]

has_value(h, n, t) == h[n].t = t

mark(h, n) == [h EXCEPT ![n].marked = TRUE]

unmark(h, n) == [h EXCEPT ![n].marked = FALSE]

is_marked(h, n) == h[n].marked

get_parent(h, n) == h[n].parent

set_parent(h, n, parent) == [h EXCEPT ![n].parent = parent]

remove_parent(h, n) == [h EXCEPT ![n].parent = None]

insert_child(h, n, child) == [h EXCEPT ![n].children = Append(@, child)]

get_children(h, n) == h[n].children

\* Ord for NCore: by priority only
NodeLess(h, a, b) == h[a].priority < h[b].priority

NodeGreater(h, a, b) == h[a].priority > h[b].priority

\* NPrpt::link: `self` becomes the child only when it compares Greater;
\* the handles self and other themselves are not exchanged.
Adopt(h, smaller, bigger) ==
    unmark(insert_child(set_parent(h, bigger, smaller), smaller, bigger), smaller)

link(h, self, other) ==
    IF NodeGreater(h, self, other) THEN Adopt(h, other, self) ELSE Adopt(h, self, other)

-----------------------------------------------------------------------------
(* Reference counts of the Rc handles *)

Occurrences(s, n) == Cardinality({i \in DOMAIN s : s[i] = n})

\* strong count of n, the locals of the running call not counted
RefCount(q, n) ==
    LET RECURSIVE FromCells(_)
        FromCells(S) ==
            IF S = {} THEN 0
            ELSE LET m == CHOOSE x \in S : TRUE
                 IN Occurrences(q.heap[m].children, n)
                    + (IF q.heap[m].parent = n THEN 1 ELSE 0)
                    + FromCells(S \ {m})
    IN Occurrences(q.roots, n)
       + (IF q.first = n THEN 1 ELSE 0)
       + Cardinality({t \in DOMAIN q.nodes : q.nodes[t] = n})
       + FromCells(DOMAIN q.heap)

\* Rc::drop: a cell whose count reaches zero is freed, and with it the
\* handles it held
RECURSIVE Collect(_)
Collect(q) ==
    LET dead == {n \in DOMAIN q.heap : RefCount(q, n) = 0}
    IN IF dead = {} THEN q
       ELSE Collect([q EXCEPT !.heap = [n \in DOMAIN q.heap \ dead |-> q.heap[n]]])

-----------------------------------------------------------------------------
(* Results of the public calls: Result<_, Error>, and the two ways a call  *)
(* can fail to return (a panic, a loop that never ends)                    *)

Res(kind) == [kind |-> kind, t |-> 0, priority |-> 0]

OkPair(t, priority) == [kind |-> "OkPair", t |-> t, priority |-> priority]

\* what a queue is made of (the fields of SimpleQueue / HashQueue, and the
\* cells its handles reach); `nodes` stays empty in SimpleQueue
Core(q) ==
    [heap |-> q.heap, nodes |-> q.nodes, roots |-> q.roots,
     first |-> q.first, node_count |-> q.node_count]

\* FbQueue::new
new(kind) ==
    [kind |-> kind, heap |-> <<>>, nodes |-> <<>>, roots |-> <<>>, first |-> None,
     node_count |-> 0, status |-> "running", result |-> Res("NoCall"),
     held |-> {}, cur |-> <<>>, outs |-> <<>>, taken |-> {}, unchanged |-> TRUE,
     ran |-> FALSE,
     pre |-> [node_count |-> 0, first |-> None, held |-> {}, cur |-> <<>>]]

is_empty(q) == q.node_count = 0

-----------------------------------------------------------------------------
(* heap.rs: the helper functions of FbQueueHelper *)

\* usize::ilog(4) of a positive number
RECURSIVE ILog4(_)
ILog4(x) == IF x < 4 THEN 0 ELSE 1 + ILog4(x \div 4)

Panics == -1

\* max_node_rank: node_count.pow(3).ilog(4) + 1; ilog panics on zero
max_node_rank(q) ==
    IF q.node_count = 0 THEN Panics
    ELSE ILog4(q.node_count * q.node_count * q.node_count) + 1

\* a find_first that takes the root at the front, whatever its priority
find_first_front(q) == IF q.roots = <<>> THEN None ELSE q.roots[1]

\* find_first: roots.iter().min(), the first of several equal minima
find_first(q) ==
    IF q.roots = <<>> THEN None
    ELSE LET ok(i) == /\ \A j \in DOMAIN q.roots :
                           q.heap[q.roots[i]].priority <= q.heap[q.roots[j]].priority
                      /\ \A j \in 1..(i - 1) :
                           q.heap[q.roots[j]].priority > q.heap[q.roots[i]].priority
         IN q.roots[CHOOSE i \in DOMAIN q.roots : ok(i)]

insert_root(q, n) == [q EXCEPT !.roots = Append(@, n)]

\* position of the first root equal to n, 0 when there is none
RootPosition(q, n) ==
    IF \E i \in DOMAIN q.roots : q.roots[i] = n
    THEN CHOOSE i \in DOMAIN q.roots :
             q.roots[i] = n /\ \A j \in 1..(i - 1) : q.roots[j] # n
    ELSE 0

\* Vec::swap_remove(i): the last element takes the place of the i-th
swap_remove(s, i) ==
    IF i = Len(s) THEN SubSeq(s, 1, i - 1)
    ELSE SubSeq(s, 1, i - 1) \o <<s[Len(s)]>> \o SubSeq(s, i + 1, Len(s) - 1)

\* remove_root, for a node that RootPosition finds
remove_root(q, n) == [q EXCEPT !.roots = swap_remove(@, RootPosition(q, n))]

\* insert_node: SimpleQueue allocates the cell, HashQueue also indexes it
insert_node(q, t, priority) ==
    LET q1 == [q EXCEPT !.heap = (t :> new_node(t, priority)) @@ @]
    IN IF q.kind = "hash" THEN [q1 EXCEPT !.nodes = (t :> t) @@ @] ELSE q1

\* the cells the scan can come to: the roots, and children of such cells
RECURSIVE Reach(_, _)
Reach(h, S) ==
    LET more == S \cup UNION {{h[n].children[i] : i \in DOMAIN h[n].children} : n \in S}
    IN IF more = S THEN S ELSE Reach(h, more)

RootSet(q) == {q.roots[i] : i \in DOMAIN q.roots}

ChildSet(h, n) == {h[n].children[i] : i \in DOMAIN h[n].children}

\* a cell that the scan can come to and that is its own descendant
ScanCycle(q) ==
    \E n \in Reach(q.heap, RootSet(q)) : n \in Reach(q.heap, ChildSet(q.heap, n))

Diverges == -2

\* SimpleQueue::get_node, the loop: pop_front, compare, push_back the children
RECURSIVE bfs(_, _, _)
bfs(h, queue, t) ==
    IF queue = <<>> THEN None
    ELSE LET node == Head(queue)
         IN IF has_value(h, node, t) THEN node
            ELSE bfs(h, Tail(queue) \o get_children(h, node), t)

\* get_node: the breadth-first scan of SimpleQueue (which never empties its
\* work list when the value is not there and a cycle of child links is),
\* the index of HashQueue
ScanDiverges(q, t) ==
    /\ \A n \in Reach(q.heap, RootSet(q)) : ~has_value(q.heap, n, t)
    /\ ScanCycle(q)

get_node(q, t) ==
    IF q.kind = "hash"
    THEN IF t \in DOMAIN q.nodes THEN q.nodes[t] ELSE None
    ELSE IF ScanDiverges(q, t) THEN Diverges ELSE bfs(q.heap, q.roots, t)

-----------------------------------------------------------------------------
(* consolidate *)

\* the result of the loops: the cells, the bucket vector, and whether an
\* index was out of bounds
Loop(panic, h, ranks) == [panic |-> panic, heap |-> h, ranks |-> ranks]

RECURSIVE LinkLoop(_, _, _, _)
\* a loop that goes to the next bucket instead of linking with the occupant
RECURSIVE LinkLoop_no_link(_, _, _, _)
LinkLoop_no_link(h, ranks, root, rk) ==
    IF rk >= Len(ranks) THEN Loop(TRUE, h, ranks)
    ELSE IF ranks[rk + 1] # None THEN LinkLoop_no_link(h, ranks, root, rk + 1)
         ELSE Loop(FALSE, h, [ranks EXCEPT ![rk + 1] = root])

\* a step that links once and then takes the next free bucket
Relink_next_free(h, ranks, root, rk) ==
    LinkLoop_no_link(h, [ranks EXCEPT ![rk + 1] = None], root, rank(h, root))

\* after a link: the bucket is cleared and the rank of root read again
Relink(h, ranks, root, rk) ==
    LinkLoop(h, [ranks EXCEPT ![rk + 1] = None], root, rank(h, root))

\* the while-let loop on one drained root: ranks is the bucket vector
\* (bucket r at index r + 1), indexing past its end panics
LinkLoop(h, ranks, root, rk) ==
    IF rk >= Len(ranks) THEN Loop(TRUE, h, ranks)
    ELSE IF ranks[rk + 1] # None
         THEN Relink(link(h, root, ranks[rk + 1]), ranks, root, rk)
         ELSE Loop(FALSE, h, [ranks EXCEPT ![rk + 1] = root])

\* the for loop over the drained roots, from the i-th on
RECURSIVE DrainLoop(_, _, _)
DrainNext(r, drained, i) ==
    IF r.panic THEN r ELSE DrainLoop(r, drained, i + 1)

DrainLoop(r, drained, i) ==
    IF i > Len(drained) THEN r
    ELSE DrainNext(LinkLoop(r.heap, r.ranks, drained[i], rank(r.heap, drained[i])),
                   drained, i)

\* ranks.into_iter().flatten()
RECURSIVE FlattenFrom(_, _)
FlattenFrom(ranks, i) ==
    IF i > Len(ranks) THEN <<>>
    ELSE (IF ranks[i] # None THEN <<ranks[i]>> ELSE <<>>) \o FlattenFrom(ranks, i + 1)

Flatten(ranks) == FlattenFrom(ranks, 1)

\* the roots are drained; the buckets that are filled go back to roots
Reinsert(q, r) ==
    IF r.panic
    THEN [q EXCEPT !.status = "panic", !.heap = r.heap, !.roots = <<>>]
    ELSE [q EXCEPT !.heap = r.heap, !.roots = Flatten(r.ranks)]

Buckets(max_rank) == [i \in 1..max_rank |-> None]

Consolidated(q, max_rank) ==
    IF max_rank = Panics THEN [q EXCEPT !.status = "panic"]
    ELSE Reinsert(q, DrainLoop(Loop(FALSE, q.heap, Buckets(max_rank)), q.roots, 1))

consolidate(q) == Consolidated(q, max_node_rank(q))

-----------------------------------------------------------------------------
(* cut_node *)

\* parent.mark() comes before the test of parent.is_marked(), and the
\* parent's child list is left as it is
RECURSIVE cut_node(_, _)
Cascade(q, parent) == IF is_marked(q.heap, parent) THEN cut_node(q, parent) ELSE q

\* mark the parent, clear the node's parent, insert_root, unmark the node
Detach(q, node, parent) ==
    [q EXCEPT !.heap = unmark(remove_parent(mark(@, parent), node), node),
              !.roots = Append(@, node)]

CutFrom(q, node, parent) ==
    IF parent = None THEN q ELSE Cascade(Detach(q, node, parent), parent)

cut_node(q, node) == CutFrom(q, node, get_parent(q.heap, node))

-----------------------------------------------------------------------------
(* heap.rs: the public calls of FbQueue *)

\* set_first
set_first(q, n) == [q EXCEPT !.first = n]

\* push: the new node becomes first unless the cached first is less
PushFirst(q, next) ==
    IF q.first # None /\ NodeLess(q.heap, q.first, next) THEN q ELSE set_first(q, next)

\* FbQueue::push; t is also the handle of the new node
push(q, t, priority) ==
    [PushFirst(insert_root(insert_node(q, t, priority), t), t)
        EXCEPT !.node_count = @ + 1, !.result = Res("Ok")]

\* the for loop of pop over the drained children of `first`, from the i-th on
RECURSIVE PromoteChildren(_, _, _)
PromoteChildren(q, children, i) ==
    IF i > Len(children) THEN q
    ELSE PromoteChildren(
             insert_root([q EXCEPT !.heap = remove_parent(@, children[i])], children[i]),
             children, i + 1)

\* NPrpt::pair at the end of pop: Rc::into_inner gives the cell only to the
\* last handle; `first` is the local handle of pop
pair(q, first) ==
    IF RefCount(q, first) = 0
    THEN [q EXCEPT !.heap = [n \in DOMAIN q.heap \ {first} |-> q.heap[n]],
                   !.result = OkPair(q.heap[first].t, q.heap[first].priority)]
    ELSE [q EXCEPT !.result = Res("ImpossibleRcRelease")]

\* pop: if let Some(new_first) = self.find_first() { self.set_first(new_first) }
Refresh(q, new_first) == IF new_first # None THEN set_first(q, new_first) ELSE q

\* pop after consolidate: find_first, set_first, pair
PopFinish(q, first) ==
    IF q.status = "panic" THEN [q EXCEPT !.result = Res("Panic")]
    ELSE Collect(pair(Refresh(q, find_first(q)), first))

\* pop: drain_children of first, each child made a root
PopChildren(q, first) ==
    PromoteChildren([q EXCEPT !.heap[first].children = <<>>], q.heap[first].children, 1)

\* pop from remove_root on
PopRemove(q, first) ==
    IF RootPosition(q, first) = 0 THEN Collect([q EXCEPT !.result = Res("InvalidIndex")])
    ELSE PopFinish(consolidate(PopChildren(remove_root(q, first), first)), first)

\* pop from decrement_node_count on; first has been swapped out of the queue
PopCount(q, first) ==
    IF q.node_count = 0 THEN Collect([q EXCEPT !.result = Res("Empty")])
    ELSE PopRemove([q EXCEPT !.node_count = @ - 1], first)

\* pop, once the cached first is known to be there
pop_extract(q) == PopCount([q EXCEPT !.first = None], q.first)

\* a pop that counts the node down before it looks whether there is a first
pop_counting_first(q) ==
    IF q.first # None THEN pop_extract(q)
    ELSE IF q.node_count = 0 THEN [q EXCEPT !.result = Res("Empty")]
    ELSE [q EXCEPT !.node_count = @ - 1, !.result = Res("Empty")]

\* FbQueue::pop: swap_first, and Empty when there was no first
pop(q) ==
    IF q.first = None THEN [q EXCEPT !.result = Res("Empty")]
    ELSE pop_extract(q)

\* decrease_priority after cut_node: first is moved only here
DecreaseFirst(q, node) ==
    IF q.first # None /\ NodeLess(q.heap, node, q.first) THEN set_first(q, node) ELSE q

\* decrease_priority after set_priority
DecreaseCut(q, node, parent) ==
    IF parent # None /\ NodeLess(q.heap, node, parent)
    THEN Collect([DecreaseFirst(cut_node(q, node), node) EXCEPT !.result = Res("Ok")])
    ELSE [q EXCEPT !.result = Res("Ok")]

DecreaseSet(q, node) == DecreaseCut(q, node, get_parent(q.heap, node))

\* decrease_priority once get_node has answered
DecreaseNode(q, node, new_priority) ==
    IF node = Diverges THEN [q EXCEPT !.status = "diverge", !.result = Res("Diverge")]
    ELSE IF node = None THEN [q EXCEPT !.result = Res("InvalidIndex")]
    ELSE IF ~has_higher_priority(q.heap, node, new_priority)
         THEN [q EXCEPT !.result = Res("CannotIncreasePriority")]
    ELSE DecreaseSet([q EXCEPT !.heap = set_priority(@, node, new_priority)], node)

\* FbQueue::decrease_priority
decrease_priority(q, value, new_priority) ==
    DecreaseNode(q, get_node(q, value), new_priority)

-----------------------------------------------------------------------------
(* The calls as seen by the caller.  Beside the queue itself a record      *)
(* keeps what the caller can tell: result, the values it has pushed and    *)
(* not got back (held) with the priority it last gave each (cur), the      *)
(* pairs pop returned (outs), the values whose node a pop took off the     *)
(* root list (taken), whether the last call left the queue as it was       *)
(* (unchanged), and what the queue was before the call (pre).  A queue     *)
(* whose call panicked or never returned takes no further call.            *)

Observe(q, r) ==
    [r EXCEPT !.ran = TRUE,
              !.unchanged = (Core(r) = Core(q)),
              !.pre = [node_count |-> q.node_count, first |-> q.first,
                       held |-> q.held, cur |-> q.cur]]

Skip(q) == [q EXCEPT !.ran = FALSE]

CallPush(q, t, priority) ==
    IF q.status # "running" THEN Skip(q)
    ELSE Observe(q, [push(q, t, priority) EXCEPT !.held = @ \cup {t},
                                                 !.cur = (t :> priority) @@ @])

\* what the caller learns from a pop that went from q to r
PopSeen(q, r) ==
    [r EXCEPT !.taken = IF r.result.kind \in {"OkPair", "ImpossibleRcRelease", "Panic"}
                        THEN @ \cup {q.heap[q.first].t} ELSE @,
              !.held = IF r.result.kind = "OkPair" THEN @ \ {r.result.t} ELSE @,
              !.outs = IF r.result.kind = "OkPair"
                       THEN Append(@, <<r.result.t, r.result.priority>>) ELSE @]

CallPop(q) ==
    IF q.status # "running" THEN Skip(q) ELSE Observe(q, PopSeen(q, pop(q)))

DecreaseSeen(q, r, value, new_priority) ==
    IF r.result.kind = "Ok" /\ value \in DOMAIN q.cur
    THEN [r EXCEPT !.cur[value] = new_priority]
    ELSE r

CallDecreasePriority(q, value, new_priority) ==
    IF q.status # "running" THEN Skip(q)
    ELSE Observe(q, DecreaseSeen(q, decrease_priority(q, value, new_priority),
                                 value, new_priority))

Running == sq.status = "running" \/ hq.status = "running"

Init ==
    /\ sq = new("simple")
    /\ hq = new("hash")
    /\ call = [op |-> "new", t |-> 0, priority |-> 0]
    /\ pushed = <<>>
    /\ ncalls = 0
    /\ hist = "push"

\* push(t, priority) of a value not pushed before
Push ==
    /\ Running
    /\ Len(pushed) < MaxNodes
    /\ \E priority \in Prios :
        LET t == Len(pushed) + 1
        IN /\ sq' = CallPush(sq, t, priority)
           /\ hq' = CallPush(hq, t, priority)
           /\ call' = [op |-> "push", t |-> t, priority |-> priority]
           /\ pushed' = Append(pushed, priority)
    /\ ncalls' = ncalls + 1
    /\ hist' = IF hist = "push" THEN "push" ELSE "mixed"

\* pop()
Pop ==
    /\ Running
    /\ sq' = CallPop(sq)
    /\ hq' = CallPop(hq)
    /\ call' = [op |-> "pop", t |-> 0, priority |-> 0]
    /\ ncalls' = ncalls + 1
    /\ hist' = IF hist = "mixed" THEN "mixed" ELSE "pop"
    /\ UNCHANGED pushed

\* decrease_priority(&value, new_priority), of any value, pushed or not
DecreasePriority ==
    /\ Running
    /\ \E value \in Values, new_priority \in Prios :
        /\ sq' = CallDecreasePriority(sq, value, new_priority)
        /\ hq' = CallDecreasePriority(hq, value, new_priority)
        /\ call' = [op |-> "decrease_priority", t |-> value, priority |-> new_priority]
    /\ ncalls' = ncalls + 1
    /\ hist' = "mixed"
    /\ UNCHANGED pushed

\* any interleaving of the three calls, MaxCalls calls long
Next == ncalls < MaxCalls /\ (Push \/ Pop \/ DecreasePriority)

Spec == Init /\ [][Next]_vars

\* pushes on a new queue, then pops only: one more pop than there were pushes
PushPhase == hist = "push" /\ Push

PopPhase == pushed # <<>> /\ ncalls <= 2 * Len(pushed) /\ Pop

NextPushPop == PushPhase \/ PopPhase

SpecPushPop == Init /\ [][NextPushPop]_vars

-----------------------------------------------------------------------------
(* Properties *)

Queues == {sq, hq}

Popped(q) == call.op = "pop" /\ q.ran

Decreased(q) == call.op = "decrease_priority" /\ q.ran

NonDecreasing(outs) ==
    \A i \in DOMAIN outs : \A j \in DOMAIN outs : i < j => outs[i][2] <= outs[j][2]

\* C1: pushes on a new queue followed by pops only: the priorities the
\* successive pops return are non-decreasing, in both front-ends.
C1_PopsNonDecreasing == \A q \in Queues : NonDecreasing(q.outs)

\* three pops have returned, the third a higher priority than the first
C1_Witness ==
    /\ hist = "pop"
    /\ Len(sq.outs) >= 3
    /\ sq.outs[1][2] < sq.outs[3][2]

\* C2: after n >= 1 pushes and then n pops, the n pops have returned exactly
\* the pushed pairs.
C2_RoundTrip ==
    (hist = "pop" /\ ncalls = 2 * Len(pushed)) =>
        \A q \in Queues :
            /\ Len(q.outs) = Len(pushed)
            /\ {q.outs[i] : i \in DOMAIN q.outs} = {<<t, pushed[t]>> : t \in DOMAIN pushed}

\* C3: a pop on a queue that holds a value returns a held pair whose
\* priority is the least of the current priorities of the held values.
C3_PopReturnsMinimum ==
    \A q \in Queues :
        (Popped(q) /\ q.pre.held # {}) =>
            /\ q.result.kind = "OkPair"
            /\ q.result.t \in q.pre.held
            /\ q.result.priority = q.pre.cur[q.result.t]
            /\ \A v \in q.pre.held : q.result.priority <= q.pre.cur[v]

\* C4: pop never fails with ImpossibleRcRelease, in either front-end.
C4_NoImpossibleRelease ==
    \A q \in Queues : Popped(q) => q.result.kind # "ImpossibleRcRelease"

\* C5: pop on a queue of exactly one element returns it and leaves the
\* queue empty.
C5_PopLastElement ==
    \A q \in Queues :
        (Popped(q) /\ q.pre.node_count = 1) =>
            /\ q.status = "running"
            /\ q.result.kind = "OkPair"
            /\ q.roots = <<>>
            /\ q.first = None
            /\ q.node_count = 0

\* C6: driven with the same calls, the two front-ends give the same result
\* to every call and the same is_empty() after it.
C6_FrontEndsAgree ==
    /\ sq.result = hq.result
    /\ is_empty(sq) = is_empty(hq)

\* the number of pairs repeated pop returns until it reports Empty (or
\* panics)
RECURSIVE Drain(_)
Drain(q) ==
    LET r == pop(q)
    IN IF r.result.kind \in {"Empty", "Panic"} THEN 0
       ELSE IF r.result.kind = "OkPair" THEN 1 + Drain(r)
       ELSE Drain(r)

\* C7: node_count is the number of values repeated pop would return, and
\* is_empty() is true exactly when pop would return Empty.
C7_CountIsDrain ==
    \A q \in Queues :
        q.status = "running" =>
            /\ q.node_count = Drain(q)
            /\ is_empty(q) <=> (pop(q).result.kind = "Empty")

\* C8: pop on an empty queue (no node counted, nothing held, or no cached
\* first) returns Empty, does not abort and leaves the queue as it was.
C8_PopOnEmpty ==
    \A q \in Queues :
        (Popped(q) /\ (q.pre.node_count = 0 \/ q.pre.held = {} \/ q.pre.first = None)) =>
            /\ q.result = Res("Empty")
            /\ q.status = "running"
            /\ q.unchanged

\* pop was called on a new queue
C8_Witness ==
    /\ Popped(sq) /\ Popped(hq)
    /\ sq.pre.node_count = 0 /\ hq.pre.node_count = 0
    /\ pushed = <<>>
    /\ sq.result.kind = "Empty" /\ hq.result.kind = "Empty"

\* C9: decrease_priority of a held value to a priority not below its
\* current one returns CannotIncreasePriority and changes nothing.
C9_NoIncrease ==
    \A q \in Queues :
        (Decreased(q) /\ call.t \in q.pre.held /\ call.priority >= q.pre.cur[call.t]) =>
            /\ q.result.kind = "CannotIncreasePriority"
            /\ q.unchanged

\* C10: decrease_priority of a value never pushed, or taken out by a pop,
\* returns InvalidIndex and changes nothing.
C10_AbsentValue ==
    \A q \in Queues :
        (Decreased(q) /\ (call.t > Len(pushed) \/ call.t \in q.taken)) =>
            /\ q.result.kind = "InvalidIndex"
            /\ q.unchanged

\* the call just made returned to the caller of q
Completed(q) == q.ran /\ q.status = "running"

\* the cells of the values that no pop has taken off the root list
Nodes(q) == DOMAIN q.heap \ q.taken

\* the cells whose child list holds c
Holders(q, c) == {p \in DOMAIN q.heap : c \in ChildSet(q.heap, p)}

IsMinimumRoot(q, n) ==
    /\ n \in RootSet(q)
    /\ \A r \in RootSet(q) : q.heap[n].priority <= q.heap[r].priority

\* C11: after every push, pop and decrease_priority that returned Ok on a
\* queue that is not empty, first is one of the roots and no root has a
\* lower priority, also when the node lowered was a root without a parent.
C11_CachedMinimum ==
    \A q \in Queues :
        (Completed(q) /\ q.result.kind \in {"Ok", "OkPair"} /\ q.node_count > 0) =>
            IsMinimumRoot(q, q.first)

\* C12: heap order: after every completed call no node has a lower
\* priority than a node that holds it in its child list, nor than the node
\* its parent reference names.
C12_HeapOrder ==
    \A q \in Queues :
        Completed(q) =>
            \A c \in Nodes(q) :
                /\ \A p \in Holders(q, c) : q.heap[p].priority <= q.heap[c].priority
                /\ get_parent(q.heap, c) # None =>
                       q.heap[get_parent(q.heap, c)].priority <= q.heap[c].priority

IsRoot(q, n) ==
    /\ Occurrences(q.roots, n) = 1
    /\ get_parent(q.heap, n) = None
    /\ Holders(q, n) = {}

IsChild(q, n) ==
    /\ Occurrences(q.roots, n) = 0
    /\ \E p \in DOMAIN q.heap :
        /\ Holders(q, n) = {p}
        /\ Occurrences(get_children(q.heap, p), n) = 1
        /\ get_parent(q.heap, n) = p

\* C13: forest membership: after every completed call every node is either
\* a root (once in roots, no parent, in no child list) or a child (once in
\* the child list of exactly one node, which is its parent, and not in roots).
C13_ForestMembership ==
    \A q \in Queues :
        Completed(q) => \A n \in Nodes(q) : IsRoot(q, n) \/ IsChild(q, n)

\* a pop of q gets as far as consolidate
CanPop(q) ==
    /\ q.status = "running"
    /\ q.first # None
    /\ q.node_count > 0
    /\ RootPosition(q, q.first) # 0

\* the queue that a pop of q hands to consolidate: first swapped out, the
\* node counted down, first off the roots and its children made roots
PopDrained(q) ==
    PopChildren(remove_root([q EXCEPT !.first = None, !.node_count = @ - 1], q.first),
                q.first)

\* the cells that can be come to from the roots through child lists
Trees(q) == Reach(q.heap, RootSet(q))

SameTrees(m, r) ==
    /\ Trees(r) = Trees(m)
    /\ \A n \in RootSet(r) : get_parent(r.heap, n) = None

\* C14: the consolidate of a pop loses no tree: when it returns, the nodes
\* that can be come to from roots through child lists are those that could
\* before it, and every node it put back into roots has no parent.
C14_NoTreeLost ==
    \A q \in Queues :
        (CanPop(q) /\ consolidate(PopDrained(q)).status = "running") =>
            SameTrees(PopDrained(q), consolidate(PopDrained(q)))

\* the loops of consolidate on m, whose node_count is not zero
Linked(m) == DrainLoop(Loop(FALSE, m.heap, Buckets(max_node_rank(m))), m.roots, 1)

\* C15: in the consolidate of every pop, every rank used as an index into
\* the bucket vector is less than the number of buckets that max_node_rank
\* gave: no index is out of bounds.
C15_BucketsInRange ==
    \A q \in Queues :
        (CanPop(q) /\ max_node_rank(PopDrained(q)) # Panics) =>
            ~Linked(PopDrained(q)).panic

\* a pop of q in which consolidate ran to its end
PopConsolidated(q) ==
    /\ Popped(q)
    /\ q.status = "running"
    /\ q.result.kind \in {"OkPair", "ImpossibleRcRelease"}

DistinctRanks(q) ==
    \A i \in DOMAIN q.roots : \A j \in DOMAIN q.roots :
        i # j => rank(q.heap, q.roots[i]) # rank(q.heap, q.roots[j])

\* C16: rank uniqueness: right after every pop that came through consolidate
\* no two roots have the same number of children, and there are at most
\* max_rank = floor(log4(node_count^3)) + 1 roots.
C16_RankUniqueness ==
    \A q \in Queues :
        PopConsolidated(q) =>
            /\ DistinctRanks(q)
            /\ Len(q.roots) <= ILog4(q.node_count * q.node_count * q.node_count) + 1

\* a pop returned whose consolidate linked trees and left two roots
C16_Witness ==
    /\ PopConsolidated(sq)
    /\ sq.result.kind = "OkPair"
    /\ Len(sq.roots) = 2
    /\ rank(sq.heap, sq.roots[1]) = 0
    /\ rank(sq.heap, sq.roots[2]) = 1

\* decrease_priority(value, new_priority) on q finds a node that has a
\* parent and lowers it below this parent: cut_node is called on the node
Cuts(q, value, new_priority) ==
    /\ q.status = "running"
    /\ get_node(q, value) \notin {None, Diverges}
    /\ has_higher_priority(q.heap, get_node(q, value), new_priority)
    /\ get_parent(q.heap, get_node(q, value)) # None
    /\ new_priority < q.heap[get_parent(q.heap, get_node(q, value))].priority

\* r is q after a cut of node, which had the parent p
Detached(r, node, p) ==
    /\ p \in DOMAIN r.heap => Occurrences(get_children(r.heap, p), node) = 0
    /\ get_parent(r.heap, node) = None
    /\ Occurrences(r.roots, node) = 1
    /\ ~is_marked(r.heap, node)

\* C17: after a decrease_priority that cuts a node from its parent p, the
\* node is no longer in p's child list, has no parent reference, is in
\* roots exactly once and is unmarked.
C17_CutDetaches ==
    \A q \in Queues : \A value \in Values, new_priority \in Prios :
        Cuts(q, value, new_priority) =>
            Detached(decrease_priority(q, value, new_priority),
                     get_node(q, value),
                     get_parent(q.heap, get_node(q, value)))

\* r is q after a cut from the parent p, which was not marked in q
StopsAt(q, r, p) ==
    p \in DOMAIN r.heap =>
        /\ is_marked(r.heap, p)
        /\ get_parent(r.heap, p) = get_parent(q.heap, p)
        /\ Occurrences(r.roots, p) = Occurrences(q.roots, p)

\* C18: when a decrease_priority cuts a node whose parent p is not marked,
\* p becomes marked and the cut stops: p keeps its own parent and is not
\* put into roots.
C18_CascadeRule ==
    \A q \in Queues : \A value \in Values, new_priority \in Prios :
        (/\ Cuts(q, value, new_priority)
         /\ get_parent(q.heap, get_node(q, value)) # get_node(q, value)
         /\ ~is_marked(q.heap, get_parent(q.heap, get_node(q, value)))) =>
            StopsAt(q, decrease_priority(q, value, new_priority),
                    get_parent(q.heap, get_node(q, value)))

\* the cells that can be come to from S through parent references
RECURSIVE Ancestors(_, _)
Ancestors(h, S) ==
    LET more == S \cup {h[n].parent : n \in {m \in S : m \in DOMAIN h /\ h[m].parent # None}}
    IN IF more = S THEN S ELSE Ancestors(h, more)

Acyclic(h) ==
    \A n \in DOMAIN h :
        /\ n \notin Reach(h, ChildSet(h, n))
        /\ get_parent(h, n) # None => n \notin Ancestors(h, {get_parent(h, n)})

\* C19: every call returns: the parent and child links never form a cycle,
\* and no call runs without end.
C19_Terminates ==
    \A q \in Queues :
        /\ q.status # "diverge"
        /\ Acyclic(q.heap)

\* consolidate run on q gives r: nothing linked, the same roots
NothingToLink(q, r) ==
    /\ r.status = "running"
    /\ r.heap = q.heap
    /\ r.roots = q.roots

\* C20: consolidate is idempotent: run again right after the consolidate of
\* a pop, with no push or pop in between, it links nothing and leaves the
\* roots and the parent and child links as the first run left them.
C20_ConsolidateIdempotent ==
    \A q \in Queues :
        /\ PopConsolidated(q) => NothingToLink(q, consolidate(q))
        /\ (q.status = "running" /\ consolidate(q).status = "running") =>
               NothingToLink(consolidate(q), consolidate(consolidate(q)))

\* a pop returned whose consolidate linked two trees and left two roots;
\* the second run leaves them
C20_Witness ==
    /\ PopConsolidated(hq)
    /\ Len(hq.roots) = 2
    /\ \E i \in DOMAIN hq.roots : rank(hq.heap, hq.roots[i]) = 1
    /\ RootSet(consolidate(hq)) = RootSet(hq)

====
